---- MODULE Spec2Model ----
(***************************************************************************)
(* Model of the recommendation service: the popularity scorer              *)
(* (src/src/popularity_recommender.py), the content engine                 *)
(* (src/src/content_recommender.py), the collaborative engine              *)
(* (src/src/collaborative_recommender.py) and the lazily built, lock       *)
(* guarded globals of the web service (src/api.py).                        *)
(*                                                                         *)
(* Numbers.  Scores are exact rationals [num, den] (den > 0); NaN is the   *)
(* record with den = 0 and compares false with everything, as in IEEE.     *)
(* A raw timestamp v of the model stands for the integer v * 3 600 000 of  *)
(* the data.  Times are counted in ticks of 3.6 ms: pd.to_datetime(v,      *)
(* unit='ms') is v * NsPerMs ticks, pd.to_datetime(v) (nanoseconds) is v   *)
(* ticks, and one hour is TicksPerHour ticks.                              *)
(***************************************************************************)
EXTENDS Integers, Sequences, FiniteSets, TLC

\* ---------------------------------------------------------------- bounds
NumUsers == 2
NumArticles == 4
MaxRows == 3
MaxN == 2
NumThreads == 2
MaxFailures == 2

\* ------------------------------------------------------ program constants
NsPerMs == 1000000
TicksPerHour == 1000000
HoursPerDay == 24
DaysPerMonth == 30
MinArticlesForRecs == 3
ApiColdStartThreshold == 3
ApiMaxN == 10

Users == 1..NumUsers
ArticleIds == 0..(NumArticles - 1)
NoUser == 0
NaNTs == -1

\* raw created_at_ts values (hours since the epoch, read as milliseconds)
CreatedTimes == {0, 48, 300}
\* raw click_timestamp values (read by the code as nanoseconds)
ClickTimes == {0, 300, 10000000, 23999999, 24000000, 72000000, 200000000}

VARIABLES
    interactions_df,    \* rows [user_id, click_article_id, click_timestamp], in file order
    articles_df,        \* catalog: article_id -> created_at_ts (NaNTs when empty)
    embeddings,         \* embedding table, row i at index i + 1
    df,                 \* history: the scored frame of _calculate_popularity, per article
    popularity_scores,  \* PopularityRecommender.popularity_scores, in ranking order
    user_features,      \* CollaborativeRecommender.user_features, row per user index
    article_features,   \* CollaborativeRecommender.article_features, row per article index
    idx_to_user,        \* CollaborativeRecommender.idx_to_user (index 1 is row 0)
    idx_to_article,     \* CollaborativeRecommender.idx_to_article
    user_item_matrix,   \* CollaborativeRecommender.user_item_matrix: click counts
    popularity_fallback,\* whether the engines hold a fallback PopularityRecommender
    models_loaded,      \* api.models_loaded
    loading_lock,       \* api.loading_lock: 0 free, else the thread holding it
    assigned,           \* per global of api.py, the build attempt that assigned it (0: None)
    attempts,           \* number of build attempts started
    building,           \* per thread, the build attempt it is running (0: none)
    pc,                 \* per thread, its position in the handler
    outcome,            \* per thread, how its last request ended
    resp,               \* the last call and what it returned
    scores_at_build     \* history: popularity_scores as _calculate_popularity left it

vars == <<interactions_df, articles_df, embeddings, df, popularity_scores, user_features,
          article_features, idx_to_user, idx_to_article, user_item_matrix,
          popularity_fallback, models_loaded, loading_lock, assigned,
          attempts, building, pc, outcome, resp,
          scores_at_build>>

\* ------------------------------------------------------------- sequences
Range(s) == {s[i] : i \in 1..Len(s)}

Min(a, b) == IF a < b THEN a ELSE b

Max(a, b) == IF a < b THEN b ELSE a

SetMax(S) == CHOOSE x \in S : \A y \in S : y <= x

\* DataFrame.head(n) for n >= 0
Head_n(s, n) == SubSeq(s, 1, Min(n, Len(s)))

TakeFirst(s, n) == SubSeq(s, 1, Min(n, Len(s)))

\* s[-n:] of numpy: the last n entries, and the whole of s when n = 0
TakeLast(s, n) == IF n = 0 THEN s ELSE SubSeq(s, Max(1, Len(s) - n + 1), Len(s))

\* s[::-1]
Reverse(s) == [i \in 1..Len(s) |-> s[Len(s) + 1 - i]]

\* all orders of the finite set S
Perms(S) == {p \in [1..Cardinality(S) -> S] : \A i, j \in 1..Cardinality(S) : p[i] = p[j] => i = j}

\* ------------------------------------------------------------- rationals
NaN == [num |-> 0, den |-> 0]

IsNaN(x) == x.den = 0

Rat(n, d) == [num |-> n, den |-> d]

\* IEEE comparisons: false as soon as one side is NaN
RatLess(a, b) == ~IsNaN(a) /\ ~IsNaN(b) /\ a.num * b.den < b.num * a.den

RatEq(a, b) == ~IsNaN(a) /\ ~IsNaN(b) /\ a.num * b.den = b.num * a.den

RatMul(a, b) == IF IsNaN(a) \/ IsNaN(b) THEN NaN ELSE Rat(a.num * b.num, a.den * b.den)

RatDiv(a, b) == IF IsNaN(a) \/ IsNaN(b) THEN NaN ELSE Rat(a.num * b.den, a.den * b.num)

\* -------------------------------------------------- interactions queries
\* interactions[interactions['user_id'] == user_id]['click_article_id'].unique()
user_articles(inter, user_id) ==
    {inter[i].click_article_id : i \in {j \in 1..Len(inter) : inter[j].user_id = user_id}}

\* ---------------------------------------------------- PopularityRecommender
\* groupby('click_article_id').agg({'user_id': ['count', 'nunique']})
total_clicks(inter, a) == Cardinality({i \in 1..Len(inter) : inter[i].click_article_id = a})

unique_users(inter, a) ==
    Cardinality({inter[i].user_id : i \in {j \in 1..Len(inter) : inter[j].click_article_id = a}})

article_stats(inter) == {inter[i].click_article_id : i \in 1..Len(inter)}

\* merge(how='left') and to_datetime(created_at_ts, unit='ms'): NaT without a catalog row
HasCreatedDate(arts, a) == a \in DOMAIN arts /\ arts[a] # NaNTs

created_date(arts, a) == arts[a] * NsPerMs

\* to_datetime(click_timestamp.max()): the integer is read as nanoseconds
reference_date(inter) == SetMax({inter[i].click_timestamp : i \in 1..Len(inter)})

\* (reference_date - created_date).dt.days: whole days, rounded down
age_days(inter, arts, a) ==
    (reference_date(inter) - created_date(arts, a)) \div (HoursPerDay * TicksPerHour)

AgeClipNoFloor(days) == Rat(days, DaysPerMonth)

\* .dt.days / 30, then clip(lower=0.1)
AgeClip(days) == IF days * 10 < DaysPerMonth THEN Rat(1, 10) ELSE Rat(days, DaysPerMonth)

age_months(inter, arts, a) == AgeClip(age_days(inter, arts, a))

\* 0.7 * unique_users + 0.3 * total_clicks
RawScore(uu, tc) == Rat(7 * uu + 3 * tc, 10)

raw_score(inter, a) == RawScore(unique_users(inter, a), total_clicks(inter, a))

popularity_score(inter, arts, a) == RatDiv(raw_score(inter, a), age_months(inter, arts, a))

\* age_hours, in ticks
age_ticks(inter, arts, a) == reference_date(inter) - created_date(arts, a)

BoostInclusive(ticks) ==
    IF ticks <= 24 * TicksPerHour THEN Rat(15, 10)
    ELSE IF ticks <= 72 * TicksPerHour THEN Rat(12, 10)
    ELSE Rat(1, 1)

\* 1.0, 1.5 where age_hours < 24, 1.2 where 24 <= age_hours < 72
Boost(ticks) ==
    IF ticks < 24 * TicksPerHour THEN Rat(15, 10)
    ELSE IF ticks >= 24 * TicksPerHour /\ ticks < 72 * TicksPerHour THEN Rat(12, 10)
    ELSE Rat(1, 1)

novelty_boost(inter, arts, a) == Boost(age_ticks(inter, arts, a))

final_score(inter, arts, a) ==
    RatMul(popularity_score(inter, arts, a), novelty_boost(inter, arts, a))

\* the frame df of _calculate_popularity: one row per article of the statistics; without a
\* created date the age is NaT, so the scores are NaN and the boost stays 1.0
ScoredFrame(inter, arts) ==
    [a \in article_stats(inter) |->
        IF HasCreatedDate(arts, a)
        THEN [total_clicks |-> total_clicks(inter, a),
              unique_users |-> unique_users(inter, a),
              has_date |-> TRUE,
              age_days |-> age_days(inter, arts, a),
              age_months |-> age_months(inter, arts, a),
              raw_score |-> raw_score(inter, a),
              popularity_score |-> popularity_score(inter, arts, a),
              age_ticks |-> age_ticks(inter, arts, a),
              novelty_boost |-> novelty_boost(inter, arts, a),
              final_score |-> final_score(inter, arts, a)]
        ELSE [total_clicks |-> total_clicks(inter, a),
              unique_users |-> unique_users(inter, a),
              has_date |-> FALSE,
              age_days |-> 0,
              age_months |-> NaN,
              raw_score |-> raw_score(inter, a),
              popularity_score |-> NaN,
              age_ticks |-> 0,
              novelty_boost |-> Rat(1, 1),
              final_score |-> NaN]]

\* df[['article_id', 'final_score']]
ScoredRows(frame) ==
    {[article_id |-> a, final_score |-> frame[a].final_score] : a \in DOMAIN frame}

\* sort_values('final_score', ascending=False): NaN last; the order of equal scores is
\* the sort's own (quicksort), so every such order is possible
IsDescending(s) ==
    \A i, j \in 1..Len(s) : i < j =>
        /\ ~RatLess(s[i].final_score, s[j].final_score)
        /\ (IsNaN(s[i].final_score) => IsNaN(s[j].final_score))

SortValuesUnsorted(rows) == Perms(rows)

\* the rows that may come first: no row has a greater score, and a NaN only among NaNs
SortHeads(rows) ==
    {r \in rows : \A q \in rows : /\ ~RatLess(r.final_score, q.final_score)
                                  /\ (IsNaN(r.final_score) => IsNaN(q.final_score))}

RECURSIVE SortValues(_)
SortValues(rows) ==
    IF rows = {} THEN {<<>>}
    ELSE UNION {{<<r>> \o t : t \in SortValues(rows \ {r})} : r \in SortHeads(rows)}

_calculate_popularity(inter, arts) == SortValues(ScoredRows(ScoredFrame(inter, arts)))

PopularityRecommender_init(inter, arts) == _calculate_popularity(inter, arts)

\* list(zip(top['article_id'].values, top['final_score'].values))
Zip(rows) == [i \in 1..Len(rows) |-> <<rows[i].article_id, rows[i].final_score>>]

ExcludeSeenAlways(user_id, exclude_seen) == TRUE

\* if exclude_seen and user_id is not None
ExcludeSeen(user_id, exclude_seen) == exclude_seen /\ user_id # NoUser

\* scores[~scores['article_id'].isin(user_articles)]
NotIsin(scores, seen) ==
    LET keep(r) == r.article_id \notin seen
    IN SelectSeq(scores, keep)

PopularityRecommender_recommend(user_id, n_recommendations, exclude_seen) ==
    LET scores == IF ExcludeSeen(user_id, exclude_seen)
                  THEN NotIsin(popularity_scores, user_articles(interactions_df, user_id))
                  ELSE popularity_scores
    IN Zip(Head_n(scores, n_recommendations))

ScoresAfterRecommendInPlace(user_id, exclude_seen) ==
    IF ExcludeSeen(user_id, exclude_seen)
    THEN NotIsin(popularity_scores, user_articles(interactions_df, user_id))
    ELSE popularity_scores

\* scores = self.popularity_scores.copy(): the ranking itself is left as built
ScoresAfterRecommend(user_id, exclude_seen) == popularity_scores

get_popular_articles(n) == Zip(Head_n(popularity_scores, n))

\* ------------------------------------------------------------ similarity
Dot(x, y) == LET RECURSIVE S(_)
                 S(i) == IF i = 0 THEN 0 ELSE x[i] * y[i] + S(i - 1)
             IN S(Len(x))

\* sklearn normalize(): a zero norm is replaced by 1
NormSq(x) == IF Dot(x, x) = 0 THEN 1 ELSE Dot(x, x)

\* cosine_similarity(x, y), kept exact as dot / sqrt(nsq)
cosine_similarity(x, y) == [dot |-> Dot(x, y), nsq |-> NormSq(x) * NormSq(y)]

MinusOne == [dot |-> -1, nsq |-> 1]

SimLess(a, b) ==
    IF a.dot < 0 /\ b.dot >= 0 THEN TRUE
    ELSE IF a.dot >= 0 /\ b.dot < 0 THEN FALSE
    ELSE IF a.dot >= 0 THEN a.dot * a.dot * b.nsq < b.dot * b.dot * a.nsq
    ELSE a.dot * a.dot * b.nsq > b.dot * b.dot * a.nsq

\* np.argsort(x): the indices in ascending order of value; the order of equal values is
\* the sort's own (quicksort), so every such order is possible
RECURSIVE AscendingOrders(_, _)
AscendingOrders(x, I) ==
    IF I = {} THEN {<<>>}
    ELSE UNION {{<<m>> \o t : t \in AscendingOrders(x, I \ {m})} :
                   m \in {i \in I : \A j \in I : ~SimLess(x[j], x[i])}}

argsort(x) == AscendingOrders(x, 1..Len(x))

SetMin(S) == CHOOSE x \in S : \A y \in S : x <= y

\* the ascending sequence of the integers of S
RECURSIVE Ascending(_)
Ascending(S) == IF S = {} THEN <<>> ELSE <<SetMin(S)>> \o Ascending(S \ {SetMin(S)})

VecAdd(x, y) == [i \in 1..Len(x) |-> x[i] + y[i]]

\* np.mean(user_embeddings, axis=0) up to the positive factor 1/len, which the cosine ignores
RECURSIVE VecSum(_, _)
VecSum(S, dim) ==
    IF S = {} THEN [i \in 1..dim |-> 0]
    ELSE LET a == CHOOSE x \in S : TRUE
         IN VecAdd(embeddings[a + 1], VecSum(S \ {a}, dim))

\* ------------------------------------------------ ContentBasedRecommender
ColdStartByClicks(user_id) ==
    Cardinality({i \in 1..Len(interactions_df) : interactions_df[i].user_id = user_id})
        < MinArticlesForRecs

\* len(user_articles) < self.min_articles_for_recs
ColdStart(user_id) == Cardinality(user_articles(interactions_df, user_id)) < MinArticlesForRecs

FallbackEmpty(user_id, n, exclude_seen) == <<>>

FallbackAlways(user_id, n, exclude_seen) ==
    PopularityRecommender_recommend(user_id, n, exclude_seen)

\* if self.popularity_fallback: return fallback.recommend(...) -- else return []
Fallback(user_id, n, exclude_seen) ==
    IF popularity_fallback THEN PopularityRecommender_recommend(user_id, n, exclude_seen)
    ELSE <<>>

ValidArticlesLowest(user_id) ==
    LET v == {a \in user_articles(interactions_df, user_id) : 0 <= a /\ a < Len(embeddings)}
    IN IF v = {} THEN {} ELSE {SetMin(v)}

\* for article_id in user_articles: if 0 <= article_id < len(self.embeddings)
ValidArticles(user_id) ==
    {a \in user_articles(interactions_df, user_id) : 0 <= a /\ a < Len(embeddings)}

\* top N of the unseen rows of the embedding table, for one order of np.argsort
ContentTopN(user_id, n) ==
    LET seen == user_articles(interactions_df, user_id)
        user_profile == VecSum(ValidArticles(user_id), Len(embeddings[1]))
        similarities == [i \in 1..Len(embeddings) |->
                            cosine_similarity(user_profile, embeddings[i])]
        filtered_ids == Ascending({a \in 0..(Len(embeddings) - 1) : a \notin seen})
        filtered_similarities == [k \in 1..Len(filtered_ids) |->
                                     similarities[filtered_ids[k] + 1]]
    IN {[k \in 1..Len(top) |-> <<filtered_ids[top[k]], filtered_similarities[top[k]]>>] :
            top \in {Reverse(TakeLast(p, n)) : p \in argsort(filtered_similarities)}}

\* the lists recommend may return (one per order of equal similarities)
ContentBasedRecommender_recommend(user_id, n_recommendations) ==
    IF ColdStart(user_id) THEN {Fallback(user_id, n_recommendations, TRUE)}
    ELSE IF ValidArticles(user_id) = {} THEN {Fallback(user_id, n_recommendations, TRUE)}
    ELSE ContentTopN(user_id, n_recommendations)

\* ------------------------------------------------ CollaborativeRecommender
\* the rank of a (user, article) pair in the lexicographic order; article ids start at -1
PairKey(p) == p[1] * (NumArticles + 2) + p[2] + 1

\* groupby(['user_id', 'click_article_id']).size(): one row per pair, sorted by the keys
RECURSIVE SortPairs(_)
SortPairs(pairs) ==
    IF pairs = {} THEN <<>>
    ELSE LET m == CHOOSE p \in pairs : \A q \in pairs : PairKey(p) <= PairKey(q)
         IN <<m>> \o SortPairs(pairs \ {m})

rating_data(inter) ==
    SortPairs({<<inter[i].user_id, inter[i].click_article_id>> : i \in 1..Len(inter)})

rating(inter, u, a) ==
    Cardinality({i \in 1..Len(inter) : inter[i].user_id = u /\ inter[i].click_article_id = a})

\* Series.unique(): the values in order of first appearance
RECURSIVE Unique(_)
Unique(s) ==
    IF s = <<>> THEN <<>>
    ELSE LET front == Unique(SubSeq(s, 1, Len(s) - 1))
         IN IF s[Len(s)] \in Range(front) THEN front ELSE Append(front, s[Len(s)])

\* unique_users, in the order enumerate() numbers them
BuildIdxToUser(inter) ==
    LET rd == rating_data(inter) IN Unique([i \in 1..Len(rd) |-> rd[i][1]])

\* unique_articles, in the order enumerate() numbers them
BuildIdxToArticle(inter) ==
    LET rd == rating_data(inter) IN Unique([i \in 1..Len(rd) |-> rd[i][2]])

\* csr_matrix((ratings, (user_indices, article_indices)))
BuildUserItemMatrix(inter) ==
    LET us == BuildIdxToUser(inter)
        as == BuildIdxToArticle(inter)
    IN [ui \in 1..Len(us) |-> [ai \in 1..Len(as) |-> rating(inter, us[ui], as[ai])]]

\* user_id in self.user_to_idx
InUserToIdx(user_id) == user_id \in Range(idx_to_user)

user_to_idx(user_id) == CHOOSE i \in 1..Len(idx_to_user) : idx_to_user[i] = user_id

CollabTopN(user_id, n) ==
    LET user_idx == user_to_idx(user_id)
        user_vector == user_features[user_idx]
        raw == [j \in 1..Len(article_features) |->
                   cosine_similarity(user_vector, article_features[j])]
        user_seen == {j \in 1..Len(article_features) : user_item_matrix[user_idx][j] # 0}
        scores == [j \in 1..Len(article_features) |->
                      IF j \in user_seen THEN MinusOne ELSE raw[j]]
    IN {[k \in 1..Len(top) |-> <<idx_to_article[top[k]], scores[top[k]]>>] :
            top \in {Reverse(TakeLast(p, n)) : p \in argsort(scores)}}

\* the lists recommend may return (one per order of equal scores)
CollaborativeRecommender_recommend(user_id, n_recommendations) ==
    IF ~InUserToIdx(user_id) THEN {Fallback(user_id, n_recommendations, FALSE)}
    ELSE CollabTopN(user_id, n_recommendations)

\* ----------------------------------------------------------------- api.py
Methods == {"content", "collaborative", "popularity", "other"}

NoResp == [op |-> "none", user_id |-> NoUser, method |-> "", n |-> 0, exclude_seen |-> FALSE,
           status |-> 0, recs |-> <<>>, recommendations |-> <<>>, cold_start_applied |-> FALSE,
           health_status |-> "", health_models_loaded |-> FALSE]

CallResp(op, user_id, n, exclude_seen, recs) ==
    [NoResp EXCEPT !.op = op, !.user_id = user_id, !.n = n, !.exclude_seen = exclude_seen,
                   !.recs = recs]

\* user_articles = ...nunique(); cold_start = user_articles < 3
ApiColdStart(user_id) ==
    Cardinality(user_articles(interactions_df, user_id)) < ApiColdStartThreshold

\* the results loop: a pair is kept when the catalog has a row for its article
Enrich(recs) ==
    LET known(r) == r[1] \in DOMAIN articles_df
    IN SelectSeq(recs, known)

EngineRecs(user_id, method, n) ==
    IF method = "content" THEN ContentBasedRecommender_recommend(user_id, n)
    ELSE IF method = "collaborative" THEN CollaborativeRecommender_recommend(user_id, n)
    ELSE {PopularityRecommender_recommend(user_id, n, TRUE)}

\* the responses get_recommendations may give once the models are loaded
get_recommendations(user_id, method, n) ==
    LET base == [NoResp EXCEPT !.op = "get_recommendations", !.user_id = user_id,
                               !.method = method, !.n = n]
    IN IF ~(1 <= n /\ n <= ApiMaxN) THEN {[base EXCEPT !.status = 400]}
       ELSE IF method \notin {"content", "collaborative", "popularity"}
            \* the HTTPException(400) is raised inside the try and caught by
            \* "except Exception", which raises HTTPException(500)
            THEN {[base EXCEPT !.status = 500]}
       ELSE {[base EXCEPT !.status = 200, !.recs = recs, !.recommendations = Enrich(recs),
                          !.cold_start_applied = ApiColdStart(user_id)] :
                recs \in EngineRecs(user_id, method, n)}

\* --------------------------------------------------------------- requests
NRange == 0..MaxN

\* the values of the query parameter n: small ones and one above the upper limit
ApiNRange == NRange \cup {ApiMaxN + 1}

ApiUnchanged == UNCHANGED <<models_loaded, loading_lock, assigned, attempts, building, pc,
                            outcome>>

DataUnchanged == UNCHANGED <<interactions_df, articles_df, embeddings, df, user_features,
                             article_features, idx_to_user, idx_to_article, user_item_matrix,
                             popularity_fallback, scores_at_build>>

\* PopularityRecommender.recommend(user_id, n, exclude_seen)
CallPopularityRecommend ==
    \E u \in Users \cup {NoUser}, n \in NRange, ex \in BOOLEAN :
        /\ resp.op = "none"
        /\ resp' = CallResp("popularity.recommend", u, n, ex,
                            PopularityRecommender_recommend(u, n, ex))
        /\ popularity_scores' = ScoresAfterRecommend(u, ex)
        /\ DataUnchanged /\ ApiUnchanged

\* PopularityRecommender.get_popular_articles(n)
CallGetPopularArticles ==
    \E n \in NRange :
        /\ resp.op = "none"
        /\ resp' = CallResp("get_popular_articles", NoUser, n, FALSE, get_popular_articles(n))
        /\ UNCHANGED popularity_scores
        /\ DataUnchanged /\ ApiUnchanged

\* ContentBasedRecommender.recommend(user_id, n)
CallContentRecommend ==
    \E u \in Users, n \in NRange :
        /\ resp.op = "none"
        /\ \E recs \in ContentBasedRecommender_recommend(u, n) :
              resp' = CallResp("content.recommend", u, n, FALSE, recs)
        /\ popularity_scores' = IF ColdStart(u) \/ ValidArticles(u) = {}
                                THEN IF popularity_fallback THEN ScoresAfterRecommend(u, TRUE)
                                     ELSE popularity_scores
                                ELSE popularity_scores
        /\ DataUnchanged /\ ApiUnchanged

\* CollaborativeRecommender.recommend(user_id, n)
CallCollabRecommend ==
    \E u \in Users, n \in NRange :
        /\ resp.op = "none"
        /\ \E recs \in CollaborativeRecommender_recommend(u, n) :
              resp' = CallResp("collaborative.recommend", u, n, FALSE, recs)
        /\ popularity_scores' = IF ~InUserToIdx(u) /\ popularity_fallback
                                THEN ScoresAfterRecommend(u, FALSE)
                                ELSE popularity_scores
        /\ DataUnchanged /\ ApiUnchanged

\* the frame popularity_scores after the engine call of get_recommendations
ScoresAfterRequest(u, method, n) ==
    IF ~(1 <= n /\ n <= ApiMaxN) THEN popularity_scores
    ELSE IF method = "content"
         THEN IF (ColdStart(u) \/ ValidArticles(u) = {}) /\ popularity_fallback
              THEN ScoresAfterRecommend(u, TRUE) ELSE popularity_scores
    ELSE IF method = "collaborative"
         THEN IF ~InUserToIdx(u) /\ popularity_fallback
              THEN ScoresAfterRecommend(u, FALSE) ELSE popularity_scores
    ELSE IF method = "popularity" THEN ScoresAfterRecommend(u, TRUE)
    ELSE popularity_scores

\* GET /recommend/{user_id}?method=&n= with the models loaded
ApiGetRecommendations ==
    \E u \in Users, m \in Methods, n \in ApiNRange :
        /\ models_loaded
        /\ resp.op = "none"
        /\ resp' \in get_recommendations(u, m, n)
        /\ popularity_scores' = ScoresAfterRequest(u, m, n)
        /\ DataUnchanged /\ ApiUnchanged

\* the caller takes the result; the next call of a sequential caller follows
Return ==
    /\ resp.op # "none"
    /\ resp' = NoResp
    /\ UNCHANGED popularity_scores
    /\ DataUnchanged /\ ApiUnchanged

\* ------------------------------------------------------------ input data
\* the (user, article) pairs of at most MaxRows clicks on the articles of arts, in one
\* file order (the order of the rows changes no result)
RowKeys(arts) ==
    {s \in UNION {[1..k -> Users \X arts] : k \in 1..MaxRows} :
        \A i \in 1..(Len(s) - 1) : PairKey(s[i]) <= PairKey(s[i + 1])}

\* click timestamps grow with the file order: the last row holds the maximum t
MakeRows(keys, t) ==
    [i \in 1..Len(keys) |->
        [user_id |-> keys[i][1], click_article_id |-> keys[i][2],
         click_timestamp |-> IF i = Len(keys) THEN t ELSE 0]]

\* catalogs over the articles of arts: a row or none, its created_at_ts a value or empty
Catalogs(arts) == UNION {[D -> CreatedTimes \cup {NaNTs}] : D \in SUBSET arts}

CatalogOld == [a \in ArticleIds |-> 0]

CatalogMixed == [a \in ArticleIds |-> IF a % 2 = 0 THEN 48 ELSE 0]

CatalogGaps == [a \in ArticleIds \ {0} |-> IF a = 1 THEN NaNTs ELSE IF a = 2 THEN 48 ELSE 0]

BaseVectors == <<(<<1, 0>>), (<<0, 1>>), (<<1, 1>>), (<<-1, 0>>), (<<0, 0>>)>>

\* one embedding row per article
FullTable == [i \in 1..NumArticles |-> BaseVectors[((i - 1) % 5) + 1]]

\* a table shorter than the catalog: the last article id is out of its range
ShortTable == [i \in 1..(NumArticles - 1) |-> BaseVectors[((2 * i) % 5) + 1]]

\* a table of one row: every article id but 0 is out of its range
TinyTable == [i \in 1..1 |-> BaseVectors[1]]

\* a table with rows for articles nobody has clicked
WideTable == [i \in 1..(NumArticles + 2) |-> BaseVectors[((i - 1) % 5) + 1]]

LatentVecs == {<<1>>, <<-1>>}

AllGlobals == {"interactions_df", "articles_df", "popularity_rec", "content_rec", "collab_rec"}

Flags == AllGlobals \cup {"models_loaded"}

Threads == 1..NumThreads

\* the state once the three recommenders are constructed from the data; the content and
\* collaborative engines get the popularity scorer as fallback, or None
InitEngines(keys, times, catalogs, tables, ulat, alat, fallbacks) ==
    /\ \E k \in keys, t \in times : interactions_df = MakeRows(k, t)
    /\ articles_df \in catalogs
    /\ embeddings \in tables
    /\ df = ScoredFrame(interactions_df, articles_df)
    /\ popularity_scores \in PopularityRecommender_init(interactions_df, articles_df)
    /\ scores_at_build = popularity_scores
    /\ idx_to_user = BuildIdxToUser(interactions_df)
    /\ idx_to_article = BuildIdxToArticle(interactions_df)
    /\ user_item_matrix = BuildUserItemMatrix(interactions_df)
    /\ user_features \in [1..Len(idx_to_user) -> ulat]
    /\ article_features \in [1..Len(idx_to_article) -> alat]
    /\ popularity_fallback \in fallbacks
    /\ models_loaded = TRUE
    /\ loading_lock = 0
    /\ assigned = [g \in Flags |-> 1]
    /\ attempts = 1
    /\ building = [t \in Threads |-> 0]
    /\ pc = [t \in Threads |-> "idle"]
    /\ outcome = [t \in Threads |-> "none"]
    /\ resp = NoResp

\* the state once load_models_lazy has built the three recommenders from the data:
\* popularity_fallback=popularity_rec for both engines
InitBuilt(keys, times, catalogs, tables, ulat, alat) ==
    InitEngines(keys, times, catalogs, tables, ulat, alat, {TRUE})

\* the engines over every small click log
Init == InitBuilt(RowKeys(ArticleIds), {200000000}, {CatalogOld, CatalogMixed, CatalogGaps},
                  {FullTable, ShortTable, TinyTable}, {<<1>>}, {<<1>>})

Next ==
    \/ CallPopularityRecommend
    \/ CallGetPopularArticles
    \/ CallContentRecommend
    \/ CallCollabRecommend
    \/ ApiGetRecommendations
    \/ Return

Spec == Init /\ [][Next]_vars

\* the popularity scorer over every age and catalog of two articles
InitScore == InitBuilt(RowKeys({0, 1}), ClickTimes, Catalogs({0, 1}), {FullTable},
                       {<<1>>}, {<<1>>})

NextScore ==
    \/ CallPopularityRecommend
    \/ CallGetPopularArticles
    \/ Return

SpecScore == InitScore /\ [][NextScore]_vars

\* the collaborative engine over every small click log and latent factors
InitCollab == InitBuilt(RowKeys(ArticleIds), {200000000}, {CatalogMixed}, {FullTable},
                        {<<1>>}, LatentVecs)

NextCollab ==
    \/ CallCollabRecommend
    \/ ApiGetRecommendations
    \/ Return

SpecCollab == InitCollab /\ [][NextCollab]_vars

\* the content and collaborative engines used as classes, with or without a fallback, over
\* click logs that also refer to article ids outside every embedding table
InitEngine == InitEngines(RowKeys({-1} \cup ArticleIds), {200000000}, {CatalogMixed},
                          {FullTable, ShortTable, TinyTable, WideTable}, {<<1>>}, {<<1>>},
                          BOOLEAN)

NextEngine ==
    \/ CallContentRecommend
    \/ CallCollabRecommend
    \/ Return

SpecEngine == InitEngine /\ [][NextEngine]_vars

\* ------------------------------------------------- api.py: the lazy build
\* the files under data/, the same at every attempt
FileRows == MakeRows(<<(<<1, 0>>), (<<1, 1>>), (<<1, 1>>), (<<1, 2>>), (<<2, 0>>)>>, 200000000)

FileCatalog == CatalogMixed

FileTable == FullTable

\* the statements of the try block, in order, then the end of the with block
BuildSteps == <<"load_interactions", "load_articles", "load_embeddings", "init_popularity",
                "init_content", "init_collab", "set_loaded">>

BuildBody == Range(BuildSteps)

\* positions at which the thread is inside "with loading_lock:"
InLock == BuildBody \cup {"double_check", "release"}

StepAfter(step) ==
    IF step = "set_loaded" THEN "release"
    ELSE BuildSteps[1 + CHOOSE i \in 1..Len(BuildSteps) : BuildSteps[i] = step]

\* the global each statement assigns ("" for the local embeddings)
GlobalOf(step) ==
    CASE step = "load_interactions" -> "interactions_df"
      [] step = "load_articles" -> "articles_df"
      [] step = "init_popularity" -> "popularity_rec"
      [] step = "init_content" -> "content_rec"
      [] step = "init_collab" -> "collab_rec"
      [] step = "set_loaded" -> "models_loaded"
      [] OTHER -> ""

SetsLoadedEarly(step) == step = "init_popularity"

\* models_loaded = True is the last statement of the try block
SetsLoaded(step) == step = "set_loaded"

DoubleCheckSkipped(loaded) == FALSE

\* "if models_loaded: return" under the lock
DoubleCheck(loaded) == loaded

LockKeptOnRaise(t) == loading_lock

\* leaving "with loading_lock:" by an exception releases the lock
LockAfterRaise(t) == 0

ThreadUnchanged == UNCHANGED <<resp, scores_at_build>>

EngineUnchanged == UNCHANGED <<interactions_df, articles_df, embeddings, df, popularity_scores,
                               user_features, article_features, idx_to_user, idx_to_article,
                               user_item_matrix, popularity_fallback>>

\* a request that needs the models arrives: ensure_models_loaded, "if not models_loaded"
StartRequest(t) ==
    /\ pc[t] = "idle"
    /\ pc' = [pc EXCEPT ![t] = IF models_loaded THEN "ensure2" ELSE "lazy_check"]
    /\ outcome' = [outcome EXCEPT ![t] = "none"]
    /\ UNCHANGED <<models_loaded, loading_lock, assigned, attempts, building>>
    /\ EngineUnchanged /\ ThreadUnchanged

\* load_models_lazy: "if models_loaded: return"
LazyCheck(t) ==
    /\ pc[t] = "lazy_check"
    /\ pc' = [pc EXCEPT ![t] = IF models_loaded THEN "ensure2" ELSE "acquire"]
    /\ UNCHANGED <<models_loaded, loading_lock, assigned, attempts, building, outcome>>
    /\ EngineUnchanged /\ ThreadUnchanged

\* "with loading_lock:" blocks until the lock is free
Acquire(t) ==
    /\ pc[t] = "acquire"
    /\ loading_lock = 0
    /\ loading_lock' = t
    /\ pc' = [pc EXCEPT ![t] = "double_check"]
    /\ UNCHANGED <<models_loaded, assigned, attempts, building, outcome>>
    /\ EngineUnchanged /\ ThreadUnchanged

\* the double check after the lock: return (and release), or start the build
DoubleCheckStep(t) ==
    /\ pc[t] = "double_check"
    /\ IF DoubleCheck(models_loaded)
       THEN /\ pc' = [pc EXCEPT ![t] = "release"]
            /\ UNCHANGED <<attempts, building>>
       ELSE /\ pc' = [pc EXCEPT ![t] = BuildSteps[1]]
            /\ attempts' = attempts + 1
            /\ building' = [building EXCEPT ![t] = attempts + 1]
    /\ UNCHANGED <<models_loaded, loading_lock, assigned, outcome>>
    /\ EngineUnchanged /\ ThreadUnchanged

\* one statement of the try block succeeds
BuildStep(t) ==
    /\ pc[t] \in BuildBody
    /\ LET step == pc[t] IN
        /\ pc' = [pc EXCEPT ![t] = StepAfter(step)]
        /\ assigned' = IF GlobalOf(step) = "" THEN assigned
                       ELSE [assigned EXCEPT ![GlobalOf(step)] = building[t]]
        /\ models_loaded' = IF SetsLoaded(step) THEN TRUE ELSE models_loaded
        /\ interactions_df' = IF step = "load_interactions" THEN FileRows ELSE interactions_df
        /\ articles_df' = IF step = "load_articles" THEN FileCatalog ELSE articles_df
        /\ IF step = "init_popularity"
           THEN /\ popularity_scores' \in PopularityRecommender_init(interactions_df, articles_df)
                /\ scores_at_build' = popularity_scores'
                /\ df' = ScoredFrame(interactions_df, articles_df)
           ELSE UNCHANGED <<popularity_scores, scores_at_build, df>>
        /\ embeddings' = IF step = "init_content" THEN FileTable ELSE embeddings
        /\ IF step = "init_collab"
           THEN /\ idx_to_user' = BuildIdxToUser(interactions_df)
                /\ idx_to_article' = BuildIdxToArticle(interactions_df)
                /\ user_item_matrix' = BuildUserItemMatrix(interactions_df)
                /\ user_features' = [i \in 1..Len(BuildIdxToUser(interactions_df)) |-> <<1>>]
                /\ article_features' =
                       [i \in 1..Len(BuildIdxToArticle(interactions_df)) |-> <<1>>]
           ELSE UNCHANGED <<idx_to_user, idx_to_article, user_item_matrix, user_features,
                            article_features>>
    /\ UNCHANGED <<loading_lock, attempts, building, outcome, popularity_fallback, resp>>

\* one statement of the try block raises: except prints and re-raises, the with block
\* is left, and ensure_models_loaded passes the exception on to the request
BuildFail(t) ==
    /\ pc[t] \in BuildBody \ {"set_loaded"}
    /\ attempts <= MaxFailures
    /\ loading_lock' = LockAfterRaise(t)
    /\ pc' = [pc EXCEPT ![t] = "idle"]
    /\ outcome' = [outcome EXCEPT ![t] = "build_error"]
    /\ building' = [building EXCEPT ![t] = 0]
    /\ UNCHANGED <<models_loaded, assigned, attempts>>
    /\ EngineUnchanged /\ ThreadUnchanged

\* the end of the with block
Release(t) ==
    /\ pc[t] = "release"
    /\ loading_lock' = 0
    /\ pc' = [pc EXCEPT ![t] = "ensure2"]
    /\ building' = [building EXCEPT ![t] = 0]
    /\ UNCHANGED <<models_loaded, assigned, attempts, outcome>>
    /\ EngineUnchanged /\ ThreadUnchanged

\* ensure_models_loaded: "if not models_loaded: raise HTTPException(503)"
Ensure2(t) ==
    /\ pc[t] = "ensure2"
    /\ pc' = [pc EXCEPT ![t] = IF models_loaded THEN "handle" ELSE "idle"]
    /\ outcome' = [outcome EXCEPT ![t] = IF models_loaded THEN outcome[t] ELSE "503"]
    /\ UNCHANGED <<models_loaded, loading_lock, assigned, attempts, building>>
    /\ EngineUnchanged /\ ThreadUnchanged

\* the rest of get_recommendations, on the globals as they are
Handle(t) ==
    /\ pc[t] = "handle"
    /\ \E u \in Users, m \in Methods, n \in NRange :
          /\ resp' \in get_recommendations(u, m, n)
          /\ popularity_scores' = ScoresAfterRequest(u, m, n)
    /\ pc' = [pc EXCEPT ![t] = "idle"]
    /\ outcome' = [outcome EXCEPT ![t] = "answered"]
    /\ UNCHANGED <<models_loaded, loading_lock, assigned, attempts, building>>
    /\ DataUnchanged

\* GET /health
health_check(t) ==
    /\ pc[t] = "idle"
    /\ resp' = [NoResp EXCEPT !.op = "health",
                              !.health_status = IF ~models_loaded THEN "starting"
                                                ELSE "healthy",
                              !.health_models_loaded = models_loaded]
    /\ UNCHANGED <<models_loaded, loading_lock, assigned, attempts, building, pc, outcome,
                   popularity_scores>>
    /\ DataUnchanged

\* the module as imported: nothing loaded, no request yet
InitApi ==
    /\ interactions_df = <<>>
    /\ articles_df = <<>>
    /\ embeddings = <<>>
    /\ df = <<>>
    /\ popularity_scores = <<>>
    /\ scores_at_build = <<>>
    /\ idx_to_user = <<>>
    /\ idx_to_article = <<>>
    /\ user_item_matrix = <<>>
    /\ user_features = <<>>
    /\ article_features = <<>>
    /\ popularity_fallback = TRUE
    /\ models_loaded = FALSE
    /\ loading_lock = 0
    /\ assigned = [g \in Flags |-> 0]
    /\ attempts = 0
    /\ building = [t \in Threads |-> 0]
    /\ pc = [t \in Threads |-> "idle"]
    /\ outcome = [t \in Threads |-> "none"]
    /\ resp = NoResp

NextApi ==
    \E t \in Threads :
        \/ StartRequest(t)
        \/ LazyCheck(t)
        \/ Acquire(t)
        \/ DoubleCheckStep(t)
        \/ BuildStep(t)
        \/ BuildFail(t)
        \/ Release(t)
        \/ Ensure2(t)
        \/ Handle(t)
        \/ health_check(t)

SpecApi == InitApi /\ [][NextApi]_vars

\* ================================================================ claims
\* the distinct articles the user of the last call has interacted with
SeenByCaller == user_articles(interactions_df, resp.user_id)

IsContentCall ==
    \/ resp.op = "content.recommend"
    \/ resp.op = "get_recommendations" /\ resp.method = "content" /\ resp.status = 200

IsCollabCall ==
    \/ resp.op = "collaborative.recommend"
    \/ resp.op = "get_recommendations" /\ resp.method = "collaborative" /\ resp.status = 200

IsApiAnswer == resp.op = "get_recommendations" /\ resp.status = 200

\* C1: a content request of a user with fewer than 3 distinct interacted articles returns
\* exactly what the popularity fallback returns for (user, n, exclude_seen = True), and the
\* /recommend response for method=content carries cold_start_applied = true.
C1_ContentColdStart ==
    (IsContentCall /\ Cardinality(SeenByCaller) < 3) =>
        /\ resp.recs = PopularityRecommender_recommend(resp.user_id, resp.n, TRUE)
        /\ IsApiAnswer => resp.cold_start_applied

C1_Witness ==
    /\ IsApiAnswer /\ resp.method = "content"
    /\ Cardinality(SeenByCaller) = 2
    /\ Len(resp.recs) > 0
    /\ \E i \in 1..Len(popularity_scores) : popularity_scores[i].article_id \in SeenByCaller

\* C2: a collaborative request of a user with no row in the interaction data returns exactly
\* the first n entries of the popularity ranking, nothing excluded, and the /recommend
\* response for method=collaborative carries cold_start_applied = true.
C2_CollabColdStart ==
    (IsCollabCall /\ SeenByCaller = {}) =>
        /\ resp.recs = Zip(Head_n(popularity_scores, resp.n))
        /\ resp.recs = PopularityRecommender_recommend(resp.user_id, resp.n, FALSE)
        /\ IsApiAnswer => resp.cold_start_applied

C2_Witness ==
    /\ IsApiAnswer /\ resp.method = "collaborative"
    /\ SeenByCaller = {}
    /\ Len(resp.recs) = 2
    /\ resp.cold_start_applied

\* C3: for n >= 1, no pair returned by a strategy that excludes seen articles (content,
\* collaborative, popularity with exclude_seen = True) refers to an article the user has
\* already interacted with.
C3_SeenExcluded ==
    (/\ resp.n >= 1
     /\ \/ IsContentCall
        \/ IsCollabCall
        \/ resp.op = "popularity.recommend" /\ resp.exclude_seen
        \/ IsApiAnswer /\ resp.method = "popularity") =>
        \A i \in 1..Len(resp.recs) : resp.recs[i][1] \notin SeenByCaller

\* C4: get_popular_articles(n) returns a list in which no entry has a greater final_score
\* than an earlier one, and it is the first n rows of the ranking as the build left it,
\* whatever calls came before: two calls with the same n return the same list.
C4_PopularSortedAndStable ==
    resp.op = "get_popular_articles" =>
        /\ \A i, j \in 1..Len(resp.recs) : i < j => ~RatLess(resp.recs[i][2], resp.recs[j][2])
        /\ resp.recs = Zip(Head_n(scores_at_build, resp.n))

C4_Witness ==
    /\ resp.op = "get_popular_articles"
    /\ Len(resp.recs) = 2
    /\ Len(popularity_scores) > 2
    /\ RatLess(resp.recs[2][2], resp.recs[1][2])

\* C5: the build body is never run by two threads at once; once models_loaded is true it
\* stays true and no build starts or runs again; a caller that finds the lock taken waits,
\* and one that gets the lock after a completed build leaves without building.
C5_OneBuilderAtATime == Cardinality({t \in Threads : pc[t] \in BuildBody}) <= 1

C5_NoBuildOnceLoaded == models_loaded => \A t \in Threads : pc[t] \notin BuildBody

C5_Step ==
    /\ models_loaded => (models_loaded' /\ attempts' = attempts)
    /\ \A t \in Threads :
          /\ (pc[t] = "acquire" /\ loading_lock # 0) => pc'[t] = "acquire"
          /\ (pc[t] = "double_check" /\ models_loaded) => pc'[t] \in {"double_check", "release"}

C5_SingleBuild == [](C5_OneBuilderAtATime /\ C5_NoBuildOnceLoaded) /\ [][C5_Step]_vars

C5_Witness ==
    /\ models_loaded
    /\ attempts = 1
    /\ \E t \in Threads : pc[t] = "double_check" /\ building[t] = 0

\* C6: models_loaded implies that the five globals were all assigned by the one build that
\* set it; a build step that raises leaves models_loaded false; /health reports "starting"
\* with models_loaded false as long as no build has completed; a handler reaches the
\* recommenders only with the models loaded.
C6_AllAssignedByOneBuild ==
    models_loaded =>
        /\ assigned["models_loaded"] > 0
        /\ \A g \in AllGlobals : assigned[g] = assigned["models_loaded"]

C6_HealthAndHandlers ==
    /\ resp.op = "health" =>
          /\ resp.health_status = "starting" <=> ~resp.health_models_loaded
          /\ ~models_loaded => resp.health_status = "starting"
    /\ \A t \in Threads : pc[t] = "handle" => models_loaded
    /\ IsApiAnswer => models_loaded

C6_FailStep ==
    \A t \in Threads : (pc[t] \in BuildBody /\ outcome'[t] = "build_error") => ~models_loaded'

C6_Readiness == [](C6_AllAssignedByOneBuild /\ C6_HealthAndHandlers) /\ [][C6_FailStep]_vars

C6_Witness ==
    /\ resp.op = "health" /\ resp.health_status = "starting"
    /\ ~models_loaded
    /\ assigned["content_rec"] > 0
    /\ \E t \in Threads : outcome[t] = "build_error"

\* C7: a build that raises releases the lock and passes the failure to its caller; the lock
\* is held only by a thread inside the with block; every build starts at the first
\* statement of the try block, so a later call builds again from scratch.
C7_LockHeldOnlyInside == loading_lock # 0 => pc[loading_lock] \in InLock

C7_Step ==
    /\ \A t \in Threads :
          (pc[t] \in BuildBody /\ pc'[t] = "idle") =>
              (loading_lock' = 0 /\ outcome'[t] = "build_error")
    /\ attempts' # attempts =>
          \E t \in Threads : /\ pc'[t] = "load_interactions"
                             /\ building'[t] = attempts'
                             /\ attempts' = attempts + 1
                             /\ ~models_loaded

C7_RetryAfterFailure == []C7_LockHeldOnlyInside /\ [][C7_Step]_vars

C7_Witness ==
    /\ models_loaded
    /\ assigned["models_loaded"] > 1
    /\ \E t \in Threads : outcome[t] = "build_error"
    /\ \E t \in Threads : outcome[t] = "answered"

\* C8: for every scored article with metadata, total_clicks is the number of its
\* interactions, unique_users the number of distinct users among them, raw_score is
\* 0.7 * unique_users + 0.3 * total_clicks, and popularity_score is raw_score divided by
\* the age in months (whole days / 30), an age below 0.1 being replaced by 0.1.
C8_ClicksOn(a) == {i \in 1..Len(interactions_df) : interactions_df[i].click_article_id = a}

C8_AgeFloored(days) == IF 10 * days < 30 THEN Rat(1, 10) ELSE Rat(days, 30)

C8_ScoreFormula ==
    \A a \in DOMAIN df :
        LET r == df[a] IN
        /\ r.total_clicks = Cardinality(C8_ClicksOn(a))
        /\ r.unique_users = Cardinality({interactions_df[i].user_id : i \in C8_ClicksOn(a)})
        /\ RatEq(r.raw_score, Rat(7 * r.unique_users + 3 * r.total_clicks, 10))
        /\ r.has_date =>
              /\ RatEq(r.age_months, C8_AgeFloored(r.age_days))
              /\ RatEq(RatMul(r.popularity_score, C8_AgeFloored(r.age_days)), r.raw_score)

C8_Witness ==
    \E a, b \in DOMAIN df :
        /\ df[a].has_date /\ df[a].age_days < 0 /\ df[a].total_clicks > df[a].unique_users
        /\ df[b].has_date /\ df[b].age_days > 3
        /\ resp.op = "get_popular_articles" /\ Len(resp.recs) = 2

\* C9: final_score = popularity_score * boost, the boost being 1.5 for an age strictly
\* below 24 hours, 1.2 from 24 hours to strictly below 72 hours, and 1.0 otherwise; an
\* article 10 hours old with raw_score 10 gets (10 / 0.1) * 1.5 = 150.
C9_Boost(ticks) ==
    IF ticks < 24 * TicksPerHour THEN Rat(3, 2)
    ELSE IF ticks < 72 * TicksPerHour THEN Rat(6, 5)
    ELSE Rat(1, 1)

C9_NoveltyBoost ==
    /\ \A a \in DOMAIN df :
          df[a].has_date =>
              /\ RatEq(df[a].novelty_boost, C9_Boost(df[a].age_ticks))
              /\ RatEq(df[a].final_score,
                       RatMul(df[a].popularity_score, C9_Boost(df[a].age_ticks)))
    /\ \A i \in 1..Len(popularity_scores) :
          LET r == popularity_scores[i] IN
          /\ r.article_id \in DOMAIN df
          /\ r.final_score = df[r.article_id].final_score
    /\ RatEq(RatMul(RatDiv(RawScore(10, 10), AgeClip(0)), Boost(10 * TicksPerHour)),
             Rat(150, 1))

C9_Witness ==
    \E a, c \in DOMAIN df :
        /\ df[a].has_date /\ df[a].age_ticks = 24 * TicksPerHour
        /\ RatEq(df[a].novelty_boost, Rat(12, 10))
        /\ df[c].has_date /\ df[c].age_ticks = 72 * TicksPerHour
        /\ RatEq(df[c].novelty_boost, Rat(1, 1))
        /\ resp.op = "get_popular_articles" /\ Len(resp.recs) = 2

\* C10: PopularityRecommender.recommend(user, n, exclude_seen) returns, in ranking order,
\* the first n rows of the ranking that are left once the articles the user has interacted
\* with are removed (only when exclude_seen is true and a user is given); with
\* exclude_seen = False or a user without interactions it equals get_popular_articles(n).
C10_Removed == IF resp.exclude_seen /\ resp.user_id # NoUser THEN SeenByCaller ELSE {}

C10_Left == {i \in 1..Len(popularity_scores) : popularity_scores[i].article_id \notin C10_Removed}

C10_PopularityRecommend ==
    resp.op = "popularity.recommend" =>
        /\ Len(resp.recs) = Min(resp.n, Cardinality(C10_Left))
        /\ \A k \in 1..Len(resp.recs) :
              \E i \in C10_Left :
                  /\ Cardinality({j \in C10_Left : j <= i}) = k
                  /\ resp.recs[k] = <<popularity_scores[i].article_id,
                                      popularity_scores[i].final_score>>
        /\ (~resp.exclude_seen \/ SeenByCaller = {}) => resp.recs = get_popular_articles(resp.n)

C10_Witness ==
    /\ resp.op = "popularity.recommend"
    /\ resp.exclude_seen
    /\ Len(resp.recs) = 1
    /\ resp.n = 2
    /\ Len(popularity_scores) = 3
    /\ popularity_scores[3].article_id = resp.recs[1][1]

\* C11: a /recommend request whose method is not content, collaborative or popularity, or
\* whose n is outside 1..10, is answered with HTTP 400, never with HTTP 500 and never with
\* a recommendation list.
C11_BadInput ==
    \/ resp.method \notin {"content", "collaborative", "popularity"}
    \/ ~(1 <= resp.n /\ resp.n <= 10)

C11_RejectedInput ==
    (resp.op = "get_recommendations" /\ C11_BadInput) =>
        /\ resp.status = 400
        /\ resp.recs = <<>>
        /\ resp.recommendations = <<>>

\* C12: with popularity_fallback = None, a cold-start call (content: fewer than 3 distinct
\* articles, or no interacted article inside the embedding table; collaborative: a user
\* without a row in the interactions) returns the empty list.
C12_ColdStartCase ==
    \/ /\ resp.op = "content.recommend"
       /\ \/ Cardinality(SeenByCaller) < 3
          \/ \A a \in SeenByCaller : a < 0 \/ a >= Len(embeddings)
    \/ /\ resp.op = "collaborative.recommend"
       /\ SeenByCaller = {}

C12_NoFallbackEmpty == (~popularity_fallback /\ C12_ColdStartCase) => resp.recs = <<>>

C12_Witness ==
    /\ ~popularity_fallback
    /\ resp.op = "content.recommend"
    /\ resp.n >= 1
    /\ Cardinality(SeenByCaller) = 3
    /\ \A a \in SeenByCaller : a < 0 \/ a >= Len(embeddings)
    /\ Len(popularity_scores) > 0
    /\ resp.recs = <<>>

\* C13: in a content call of a user with at least 3 distinct articles, the interacted
\* article ids that are negative or not below the length of the embedding table are
\* skipped: every returned score is the cosine between the returned article's embedding
\* and the mean (here the sum, which has the same direction) of the embeddings of the
\* in-range interacted articles only; with no in-range article the call returns
\* PopularityRecommender.recommend(user, n, exclude_seen = True).
C13_InRange == {a \in SeenByCaller : a >= 0 /\ a < Len(embeddings)}

C13_Profile ==
    LET RECURSIVE Total(_, _)
        Total(S, i) == IF S = {} THEN 0
                       ELSE LET a == CHOOSE x \in S : TRUE
                            IN embeddings[a + 1][i] + Total(S \ {a}, i)
    IN [i \in 1..Len(embeddings[1]) |-> Total(C13_InRange, i)]

C13_OutOfRangeSkipped ==
    (resp.op = "content.recommend" /\ Cardinality(SeenByCaller) >= 3) =>
        IF C13_InRange = {}
        THEN popularity_fallback =>
                 resp.recs = PopularityRecommender_recommend(resp.user_id, resp.n, TRUE)
        ELSE \A k \in 1..Len(resp.recs) :
                 /\ resp.recs[k][1] \in 0..(Len(embeddings) - 1)
                 /\ resp.recs[k][2] =
                        cosine_similarity(C13_Profile, embeddings[resp.recs[k][1] + 1])

C13_Witness ==
    /\ resp.op = "content.recommend"
    /\ Cardinality(SeenByCaller) = 3
    /\ -1 \in SeenByCaller
    /\ \E a \in SeenByCaller : a >= Len(embeddings)
    /\ C13_InRange # {}
    /\ Len(resp.recs) = 2

\* C14: an article with interactions but without a catalog row, or without a creation
\* timestamp, is never returned by get_popular_articles or PopularityRecommender.recommend.
C14_HasMetadata(a) == a \in DOMAIN articles_df /\ articles_df[a] # NaNTs

C14_MissingMetadataDropped ==
    resp.op \in {"get_popular_articles", "popularity.recommend"} =>
        \A k \in 1..Len(resp.recs) : C14_HasMetadata(resp.recs[k][1])

\* C15: no recommend / get_popular_articles call on any of the three engines, direct or
\* through /recommend, changes a built structure (popularity ranking, embedding table,
\* factor matrices, user-item matrix, id mappings, interaction data, catalog): after any
\* sequence of calls the ranking is the one the build left.
C15_Built == <<popularity_scores, embeddings, user_features, article_features,
               user_item_matrix, idx_to_user, idx_to_article, interactions_df, articles_df>>

C15_ReadOnly == [](popularity_scores = scores_at_build) /\ [][UNCHANGED C15_Built]_vars

C15_Witness ==
    /\ resp.op = "popularity.recommend"
    /\ resp.exclude_seen
    /\ Len(popularity_scores) = 3
    /\ popularity_scores[1].article_id \in SeenByCaller
    /\ Len(resp.recs) = 2
    /\ resp.recs[1][1] = popularity_scores[2].article_id

\* C16: the age of every scored article is the maximum click timestamp minus the
\* article's created_at_ts, both read in the same unit (milliseconds); so an article
\* created before the latest click has a positive age, and one created more than 72 hours
\* before it gets the boost 1.0.
C16_MaxClick == SetMax({interactions_df[i].click_timestamp : i \in 1..Len(interactions_df)})

\* the age in ticks when both raw values are milliseconds
C16_AgeSameUnit(a) == (C16_MaxClick - articles_df[a]) * NsPerMs

C16_AgeInOneUnit ==
    \A a \in DOMAIN df :
        df[a].has_date =>
            /\ df[a].age_ticks = C16_AgeSameUnit(a)
            /\ df[a].age_days = C16_AgeSameUnit(a) \div (HoursPerDay * TicksPerHour)
            /\ C16_MaxClick > articles_df[a] => df[a].age_ticks > 0
            /\ C16_MaxClick - articles_df[a] > 72 => RatEq(df[a].novelty_boost, Rat(1, 1))

\* C17: for n >= 1, a content call of a user with at least 3 distinct articles, at least
\* one of them inside the embedding table, returns exactly min(n, number of unseen rows of
\* the table) pairs, all distinct unseen articles of the table, each with a similarity at
\* least that of every unseen article not returned, in non-increasing order of score.
C17_Unseen == {a \in 0..(Len(embeddings) - 1) : a \notin SeenByCaller}

C17_Returned == {resp.recs[k][1] : k \in 1..Len(resp.recs)}

C17_Similarity(a) == cosine_similarity(C13_Profile, embeddings[a + 1])

C17_ContentTopN ==
    (/\ resp.op = "content.recommend"
     /\ resp.n >= 1
     /\ Cardinality(SeenByCaller) >= 3
     /\ C13_InRange # {}) =>
        /\ Len(resp.recs) = Min(resp.n, Cardinality(C17_Unseen))
        /\ Cardinality(C17_Returned) = Len(resp.recs)
        /\ C17_Returned \subseteq C17_Unseen
        /\ \A a \in C17_Returned, b \in C17_Unseen \ C17_Returned :
              ~SimLess(C17_Similarity(a), C17_Similarity(b))
        /\ \A i, j \in 1..Len(resp.recs) :
              i < j => ~SimLess(resp.recs[i][2], resp.recs[j][2])

C17_Witness ==
    /\ resp.op = "content.recommend"
    /\ resp.n = 2
    /\ Cardinality(SeenByCaller) = 3
    /\ Cardinality(C17_Unseen) = 3
    /\ Len(resp.recs) = 2
    /\ SimLess(resp.recs[2][2], resp.recs[1][2])
    /\ \E b \in C17_Unseen \ C17_Returned : SimLess(C17_Similarity(b), resp.recs[2][2])

\* C18: in every /recommend answer, cold_start_applied is true exactly when the selected
\* engine handed the request to the popularity fallback: a content request of a user with
\* fewer than 3 distinct articles or with no article inside the embedding table, or a
\* collaborative request of a user without a row in the interactions.
C18_Delegated ==
    \/ /\ resp.method = "content"
       /\ Cardinality(SeenByCaller) < 3 \/ C13_InRange = {}
    \/ /\ resp.method = "collaborative"
       /\ SeenByCaller = {}

C18_FlagFaithful == IsApiAnswer => (resp.cold_start_applied <=> C18_Delegated)

====
